---- MODULE Spec2Model ----
(***************************************************************************)
(* rustmq: the request/reply layer over an AMQP broker.                    *)
(*                                                                         *)
(* Producer (src/src/produce.rs), Consumer (src/src/consume.rs) and the    *)
(* two application loops of src/src/main.rs (ASCIIGenerator, EchoConsumer) *)
(* run against a broker that holds the request queue, the server-named     *)
(* correlation queues and one subscription stream per consumer.            *)
(***************************************************************************)
EXTENDS Naturals, Sequences, FiniteSets, TLC

(* ------------------------------ bounds -------------------------------- *)

\* Calls (rpc or publish) the callers make in all before the model stops them.
MaxCalls == 3

\* Failures the broker injects in all: failed round trips and error items.
MaxFaults == 1
\* The largest counts given on the command line.
MaxProducersArg == 2
MaxConsumersArg == 9
MaxPerThreadArg == 2
\* The builders made in one run, clones included.
MaxBuilders == 3
\* The largest id given to an envelope.
MaxId == 2

(* ----------------------------- instances ------------------------------ *)

\* p1 is driven by ASCIIGenerator::run, p2 by a caller that is free to use
\* publish or rpc with any buffer.
Producers == {"p1", "p2"}
Generators == {"p1"}

\* c1 runs Consumer::run, c2 runs EchoConsumer::run.
Consumers == {"c1", "c2"}
RunConsumers == {"c1"}
EchoConsumers == {"c2"}

\* The characters ASCIIGenerator::run cycles through (b'!'..=b'~'), cut to
\* a prefix of the letters.
Chars == <<"a", "b", "c">>

NoChannel == 0
NoReply == "(none)"
request_queue == "request"

(* ------------------------- message envelope --------------------------- *)

\* A flatbuffer table stores only the fields that were added with a value
\* different from the schema default; a buffer is the function from the
\* stored field names to their values.
DefaultId == 0
DefaultType == "Hello"

Restrict(f, S) == [k \in S |-> f[k]]

\* MessageBuilder: add_id / add_msg / add_msg_type, then finish.
Encode(fields) ==
    Restrict(fields,
             {k \in DOMAIN fields :
                 /\ k \in {"id", "msg_type", "msg"}
                 /\ (k = "id" => fields[k] # DefaultId)
                 /\ (k = "msg_type" => fields[k] # DefaultType)})

\* get_root_as_message and the accessors id(), msg_type(), msg().
HasMsg(buf) == "msg" \in DOMAIN buf
MsgText(buf) == buf["msg"]
MsgId(buf) == IF "id" \in DOMAIN buf THEN buf["id"] ELSE DefaultId
MsgType(buf) == IF "msg_type" \in DOMAIN buf THEN buf["msg_type"] ELSE DefaultType

\* ASCIIGenerator::make_buf: only the text is added.
make_buf(data) == Encode([msg |-> data])

\* A table with no field at all: a valid buffer whose msg() is None.
EmptyTable == Encode([id |-> DefaultId])

\* ASCIIGenerator::print_buf: nothing for an empty response, else the text.
print_buf(resp) ==
    IF resp = <<>> THEN ""
    ELSE IF HasMsg(resp[1]) THEN MsgText(resp[1]) ELSE ""

\* What a free caller hands to rpc and to publish.
RpcBufs == {make_buf(Chars[1])}
PublishBufs == {make_buf(Chars[1]), EmptyTable}

(* ------------------------------- state -------------------------------- *)

VARIABLES
    \* broker
    request,      \* the request queue: messages ready for delivery
    cq,           \* correlation queue name -> its options and waiting replies
    nextQueue,    \* server-named queues generated so far
    nextChannel,  \* connection -> channels opened on it so far
    sent,         \* every message ever published to the request queue
    replied,      \* every reply ever published to a correlation queue
    \* producers and consumers
    channel,      \* instance -> its channel, NoChannel when not created
    \* producers
    ppc,          \* producer -> its position in publish / rpc
    call,         \* producer -> the call in progress
    ncalls,       \* producer -> calls started so far
    rets,         \* every call that has returned, with what it returned
    \* consumers
    stream,       \* consumer -> items buffered on its subscription
    closed,       \* consumer -> the broker has ended its subscription
    delivered,    \* consumer -> deliveries put on its stream so far
    faults,       \* failures the broker has injected so far
    cpc,          \* consumer -> its position in run
    cur,          \* consumer -> the stream item it pulled last
    trace,        \* consumer -> what it did to its deliveries, in order
    \* application
    stderr,       \* the instances whose task has printed its error
    orch,         \* the orchestrator: its command line, Config and progress
    bld,          \* the builders made so far and the configurations they own
    env           \* an envelope on its way through the builder and the reader

broker == <<request, cq, nextQueue, nextChannel, sent, replied, faults>>
producers == <<ppc, call, ncalls, rets>>
subscriptions == <<stream, closed, delivered>>
consumers == <<cpc, cur, trace>>
vars == <<broker, channel, producers, subscriptions, consumers, stderr>>

\* thread_pool and local_pool open one connection for the producers and one
\* for the consumers; every builder and instance holds a clone of its own.
Connections == {"producer_conn", "consumer_conn"}
ConnOf(i) == IF i \in Producers THEN "producer_conn" ELSE "consumer_conn"

\* The tasks main.rs spawns: ASCIIGenerator and EchoConsumer instances.
Tasks == Generators \cup EchoConsumers

\* The orchestrator before main has run.
NotStarted == [pc |-> "none"]

\* No builder was made yet: builders and the configurations they own are
\* numbered from 1; last is the builder the last operation made or wrote.
NoBuilders == [builders |-> <<>>, configs |-> <<>>, last |-> 0]

\* No envelope is being built.
NoEnvelope == [pc |-> "none"]

NoCall == [op |-> "none", n |-> 0, msg |-> EmptyTable, q |-> NoReply]
NoItem == [kind |-> "None", tag |-> 0, data |-> EmptyTable, reply_to |-> NoReply,
           call |-> <<"", 0>>]

\* Producers are new (channel: None) and the consumers in `running` are about
\* to be built; no channel is open on either connection.
InstancesInit(running) ==
    /\ request = <<>>
    /\ cq = <<>>
    /\ nextQueue = 0
    /\ nextChannel = [k \in Connections |-> 0]
    /\ sent = {}
    /\ replied = {}
    /\ channel = [i \in Producers \cup Consumers |-> NoChannel]
    /\ ppc = [p \in Producers |-> "idle"]
    /\ call = [p \in Producers |-> NoCall]
    /\ ncalls = [p \in Producers |-> 0]
    /\ rets = {}
    /\ stream = [c \in Consumers |-> <<>>]
    /\ closed = [c \in Consumers |-> FALSE]
    /\ delivered = [c \in Consumers |-> 0]
    /\ faults = 0
    /\ cpc = [c \in Consumers |-> IF c \in running THEN "Building" ELSE "Idle"]
    /\ cur = [c \in Consumers |-> NoItem]
    /\ trace = [c \in Consumers |-> <<>>]
    /\ stderr = {}

\* The application runs one kind of consumer loop on the request queue,
\* Consumer::run or EchoConsumer::run; the other consumer stays Idle.
Init ==
    /\ \E running \in {RunConsumers, EchoConsumers} : InstancesInit(running)
    /\ orch = NotStarted
    /\ bld = NoBuilders
    /\ env = NoEnvelope

(* ------------------------------ Producer ------------------------------ *)

\* The result a call hands back to its caller. Result<()>: Ok carries the
\* unit value, that is no delivery at all (reply is the empty sequence).
\* The record keeps the step the call returned from and the channel the
\* Producer held then.
Return(p, status) ==
    /\ rets' = rets \cup {[p |-> p, n |-> call[p].n, op |-> call[p].op,
                           msg |-> call[p].msg, q |-> call[p].q,
                           status |-> status, reply |-> <<>>,
                           at |-> ppc[p], ch |-> channel[p]]}
    /\ call' = [call EXCEPT ![p] = NoCall]
    \* ASCIIGenerator::run: `rpc(req).await?` leaves the loop on Err.
    /\ ppc' = [ppc EXCEPT ![p] =
                 IF p \in Generators /\ status = "Err" THEN "stopped" ELSE "idle"]
    \* main.rs, lines 44-46: `if let Err(err) = p.run().await { eprintln! }`.
    /\ stderr' = IF p \in Generators /\ status = "Err"
                 THEN stderr \cup {p} ELSE stderr

\* Calls started so far.
Started == ncalls["p1"] + ncalls["p2"]

\* A round trip either succeeds or is one more injected failure.
Outcome(ok) ==
    /\ ok \/ faults < MaxFaults
    /\ faults' = IF ok THEN faults ELSE faults + 1

\* Enter that creates a channel on every call, cached or not.
Enter_always_create(p, op, msg) ==
    /\ ppc[p] = "idle"
    /\ Started < MaxCalls
    /\ ncalls' = [ncalls EXCEPT ![p] = @ + 1]
    /\ call' = [call EXCEPT ![p] = [op |-> op, n |-> ncalls[p] + 1, msg |-> msg,
                                    q |-> NoReply]]
    /\ ppc' = [ppc EXCEPT ![p] = "create_channel"]
    /\ UNCHANGED <<broker, channel, rets, subscriptions, consumers>>
    /\ UNCHANGED <<stderr, orch, bld, env>>

\* The first statement of rpc and of publish: use the cached channel or go
\* and create one.
Enter(p, op, msg) ==
    /\ ppc[p] = "idle"
    /\ Started < MaxCalls
    /\ ncalls' = [ncalls EXCEPT ![p] = @ + 1]
    /\ call' = [call EXCEPT ![p] = [op |-> op, n |-> ncalls[p] + 1, msg |-> msg,
                                    q |-> NoReply]]
    /\ ppc' = [ppc EXCEPT ![p] =
                 IF channel[p] = NoChannel THEN "create_channel"
                 ELSE IF op = "rpc" THEN "queue_declare" ELSE "basic_publish"]
    /\ UNCHANGED <<broker, channel, rets, subscriptions, consumers>>
    /\ UNCHANGED <<stderr, orch, bld, env>>

\* ASCIIGenerator::run: one rpc per character, cycling.
ASCIIGenerator_run(p) ==
    /\ p \in Generators
    /\ Enter(p, "rpc", make_buf(Chars[(ncalls[p] % Len(Chars)) + 1]))

\* Producer::rpc called by a free caller.
Producer_rpc(p, msg) ==
    /\ p \notin Generators
    /\ Enter(p, "rpc", msg)

\* Producer::publish called by a free caller.
Producer_publish(p, msg) ==
    /\ p \notin Generators
    /\ Enter(p, "publish", msg)

\* Connection_channel that hands out the one channel its connection pools.
Connection_channel_pooled(i) == 1

\* Connection::channel, line 66: `self.0.create_channel()` opens a channel of
\* its own on the session at every call; channels are numbered per connection.
Connection_channel(i) == nextChannel[ConnOf(i)] + 1

\* create_channel that caches the channel as soon as it is opened, before
\* the queue is declared on it.
create_channel_cache_early(p, outcome) ==
    /\ ppc[p] = "create_channel"
    /\ Outcome(outcome = "ok")
    /\ CASE outcome = "ok" ->
              /\ nextChannel' = [nextChannel EXCEPT ![ConnOf(p)] = @ + 1]
              /\ channel' = [channel EXCEPT ![p] = Connection_channel(p)]
              /\ ppc' = [ppc EXCEPT ![p] =
                           IF call[p].op = "rpc" THEN "queue_declare"
                           ELSE "basic_publish"]
              /\ UNCHANGED <<call, rets, stderr>>
         [] outcome = "declare_err" ->
              /\ nextChannel' = [nextChannel EXCEPT ![ConnOf(p)] = @ + 1]
              /\ channel' = [channel EXCEPT ![p] = Connection_channel(p)]
              /\ Return(p, "Err")
         [] OTHER ->
              /\ UNCHANGED <<nextChannel, channel>>
              /\ Return(p, "Err")
    /\ UNCHANGED <<request, cq, nextQueue, sent, replied, ncalls,
                   subscriptions, consumers>>
    /\ UNCHANGED <<orch, bld, env>>

\* Producer::create_channel over Connection::channel: open a channel, then
\* declare the producer's queue on it; either round trip may fail.
create_channel(p, outcome) ==
    /\ ppc[p] = "create_channel"
    /\ Outcome(outcome = "ok")
    /\ CASE outcome = "ok" ->
              /\ nextChannel' = [nextChannel EXCEPT ![ConnOf(p)] = @ + 1]
              /\ channel' = [channel EXCEPT ![p] = Connection_channel(p)]
              /\ ppc' = [ppc EXCEPT ![p] =
                           IF call[p].op = "rpc" THEN "queue_declare"
                           ELSE "basic_publish"]
              /\ UNCHANGED <<call, rets, stderr>>
         [] outcome = "declare_err" ->
              \* the channel was opened and is dropped with the error
              /\ nextChannel' = [nextChannel EXCEPT ![ConnOf(p)] = @ + 1]
              /\ UNCHANGED channel
              /\ Return(p, "Err")
         [] OTHER ->
              /\ UNCHANGED <<nextChannel, channel>>
              /\ Return(p, "Err")
    /\ UNCHANGED <<request, cq, nextQueue, sent, replied, ncalls,
                   subscriptions, consumers>>
    /\ UNCHANGED <<orch, bld, env>>

\* RpcQueueName with one client-chosen name for every call.
RpcQueueName_fixed(p) == "reply"

\* The name rpc asks the broker to declare: empty, so the broker names it.
RpcQueueName(p) == ""

\* rpc, lines 37-41: the options of the correlation queue.
RpcQueueOptions(p) == [exclusive |-> TRUE, auto_delete |-> TRUE]

\* queue_declare at the broker: an empty name gets a fresh generated name.
DeclaredName(name) ==
    IF name = "" THEN "amq.gen-" \o ToString(nextQueue + 1) ELSE name

\* queue_declare that goes on to publish without waiting for the broker to
\* have declared the queue.
queue_declare_not_awaited(p, ok) ==
    /\ ppc[p] = "queue_declare"
    /\ Outcome(ok)
    /\ IF ok
       THEN /\ nextQueue' = nextQueue + 1
            /\ call' = [call EXCEPT ![p].q = DeclaredName(RpcQueueName(p))]
            /\ ppc' = [ppc EXCEPT ![p] = "basic_publish"]
            /\ UNCHANGED <<cq, rets, stderr>>
       ELSE /\ UNCHANGED <<nextQueue, cq>>
            /\ Return(p, "Err")
    /\ UNCHANGED <<request, nextChannel, sent, replied, channel, ncalls,
                   subscriptions, consumers>>
    /\ UNCHANGED <<orch, bld, env>>

\* queue_declare whose failure is ignored: rpc goes on to publish the
\* request, with no reply destination.
queue_declare_publish_anyway(p, ok) ==
    /\ ppc[p] = "queue_declare"
    /\ Outcome(ok)
    /\ IF ok
       THEN LET q == DeclaredName(RpcQueueName(p)) IN
            /\ nextQueue' = IF RpcQueueName(p) = "" THEN nextQueue + 1 ELSE nextQueue
            /\ cq' = IF q \in DOMAIN cq THEN cq
                     ELSE (q :> [opts |-> RpcQueueOptions(p), ch |-> channel[p],
                                 by |-> <<p, call[p].n>>, msgs |-> <<>>]) @@ cq
            /\ call' = [call EXCEPT ![p].q = q]
       ELSE UNCHANGED <<nextQueue, cq, call>>
    /\ ppc' = [ppc EXCEPT ![p] = "basic_publish"]
    /\ UNCHANGED <<rets, stderr>>
    /\ UNCHANGED <<request, nextChannel, sent, replied, channel, ncalls,
                   subscriptions, consumers>>
    /\ UNCHANGED <<orch, bld, env>>

\* rpc, lines 37-45: declare the exclusive, auto-delete correlation queue.
queue_declare(p, ok) ==
    /\ ppc[p] = "queue_declare"
    /\ Outcome(ok)
    /\ IF ok
       THEN LET q == DeclaredName(RpcQueueName(p)) IN
            /\ nextQueue' = IF RpcQueueName(p) = "" THEN nextQueue + 1 ELSE nextQueue
            /\ cq' = IF q \in DOMAIN cq THEN cq
                     ELSE (q :> [opts |-> RpcQueueOptions(p), ch |-> channel[p],
                                 by |-> <<p, call[p].n>>, msgs |-> <<>>]) @@ cq
            /\ call' = [call EXCEPT ![p].q = q]
            /\ ppc' = [ppc EXCEPT ![p] = "basic_publish"]
            /\ UNCHANGED <<rets, stderr>>
       ELSE /\ UNCHANGED <<nextQueue, cq>>
            /\ Return(p, "Err")
    /\ UNCHANGED <<request, nextChannel, sent, replied, channel, ncalls,
                   subscriptions, consumers>>
    /\ UNCHANGED <<orch, bld, env>>

\* basic_publish that throws the cached channel away when the publish fails.
basic_publish_drop_channel(p, ok) ==
    /\ ppc[p] = "basic_publish"
    /\ Outcome(ok)
    /\ IF ok
       THEN LET m == [key |-> request_queue, ch |-> channel[p],
                      call |-> <<p, call[p].n>>, op |-> call[p].op,
                      body |-> call[p].msg, reply_to |-> call[p].q] IN
            /\ request' = Append(request, m)
            /\ sent' = sent \cup {m}
            /\ UNCHANGED channel
            /\ Return(p, "Ok")
       ELSE /\ UNCHANGED <<request, sent>>
            /\ channel' = [channel EXCEPT ![p] = NoChannel]
            /\ Return(p, "Err")
    /\ UNCHANGED <<cq, nextQueue, nextChannel, replied, ncalls,
                   subscriptions, consumers>>
    /\ UNCHANGED <<orch, bld, env>>

\* basic_publish after which the call waits for a reply before it returns.
basic_publish_await_reply(p, ok) ==
    /\ ppc[p] = "basic_publish"
    /\ Outcome(ok)
    /\ IF ok
       THEN LET m == [key |-> request_queue, ch |-> channel[p],
                      call |-> <<p, call[p].n>>, op |-> call[p].op,
                      body |-> call[p].msg, reply_to |-> call[p].q] IN
            /\ request' = Append(request, m)
            /\ sent' = sent \cup {m}
            /\ ppc' = [ppc EXCEPT ![p] = "await_reply"]
            /\ UNCHANGED <<call, rets, stderr>>
       ELSE /\ UNCHANGED <<request, sent>>
            /\ Return(p, "Err")
    /\ UNCHANGED <<cq, nextQueue, nextChannel, replied, channel, ncalls,
                   subscriptions, consumers>>
    /\ UNCHANGED <<orch, bld, env>>

\* rpc, lines 46-53, and publish, lines 65-72: basic_publish to the request
\* queue, with the correlation queue as reply_to in rpc; its result is the
\* result of the call.
basic_publish(p, ok) ==
    /\ ppc[p] = "basic_publish"
    /\ Outcome(ok)
    /\ IF ok
       THEN LET m == [key |-> request_queue, ch |-> channel[p],
                      call |-> <<p, call[p].n>>, op |-> call[p].op,
                      body |-> call[p].msg, reply_to |-> call[p].q] IN
            /\ request' = Append(request, m)
            /\ sent' = sent \cup {m}
            /\ Return(p, "Ok")
       ELSE /\ UNCHANGED <<request, sent>>
            /\ Return(p, "Err")
    /\ UNCHANGED <<cq, nextQueue, nextChannel, replied, channel, ncalls,
                   subscriptions, consumers>>
    /\ UNCHANGED <<orch, bld, env>>

ProducerNext ==
    \E p \in Producers :
        \/ ASCIIGenerator_run(p)
        \/ \E msg \in RpcBufs : Producer_rpc(p, msg)
        \/ \E msg \in PublishBufs : Producer_publish(p, msg)
        \/ \E outcome \in {"ok", "create_err", "declare_err"} : create_channel(p, outcome)
        \/ \E ok \in BOOLEAN : queue_declare(p, ok)
        \/ \E ok \in BOOLEAN : basic_publish(p, ok)

(* -------------------------- ConsumerBuilder --------------------------- *)

\* ConsumerBuilder::consumer, lines 52-77, run by the consumer's task: a
\* channel and the queue from Connection::channel, then basic_consume, which
\* starts the subscription. A failed round trip ends the build with its
\* error, which the task of main.rs prints (lines 56-57); a channel that was
\* opened before the failure is dropped.
ConsumerBuilder_consumer(c, outcome) ==
    /\ cpc[c] = "Building"
    /\ Outcome(outcome = "ok")
    /\ CASE outcome = "ok" ->
              /\ nextChannel' = [nextChannel EXCEPT ![ConnOf(c)] = @ + 1]
              /\ channel' = [channel EXCEPT ![c] = Connection_channel(c)]
              /\ cpc' = [cpc EXCEPT ![c] = "AwaitingDelivery"]
         [] outcome = "declare_err" ->
              /\ nextChannel' = [nextChannel EXCEPT ![ConnOf(c)] = @ + 1]
              /\ cpc' = [cpc EXCEPT ![c] = "BuildFailed"]
              /\ UNCHANGED channel
         [] OTHER ->
              /\ cpc' = [cpc EXCEPT ![c] = "BuildFailed"]
              /\ UNCHANGED <<nextChannel, channel>>
    /\ stderr' = IF outcome # "ok" /\ c \in Tasks THEN stderr \cup {c} ELSE stderr
    /\ UNCHANGED <<request, cq, nextQueue, sent, replied, producers,
                   subscriptions, cur, trace>>
    /\ UNCHANGED <<orch, bld, env>>

BuilderNext ==
    \E c \in Consumers :
        \E outcome \in {"ok", "create_err", "declare_err"} :
            ConsumerBuilder_consumer(c, outcome)

(* ------------------------------- broker ------------------------------- *)

\* The consumer's loop was started and the broker has not ended its stream.
Subscribed(c) == cpc[c] \notin {"Idle", "Building", "BuildFailed"} /\ ~closed[c]

\* The broker hands the oldest ready request to one of the subscribed
\* consumers; its delivery tag counts the deliveries on that channel.
Deliver(c) ==
    /\ request # <<>>
    /\ Subscribed(c)
    /\ LET m == Head(request) IN
       stream' = [stream EXCEPT ![c] =
                    Append(@, [kind |-> "Ok", tag |-> delivered[c] + 1,
                               data |-> m.body, reply_to |-> m.reply_to,
                               call |-> m.call])]
    /\ delivered' = [delivered EXCEPT ![c] = @ + 1]
    /\ request' = Tail(request)
    /\ UNCHANGED <<cq, nextQueue, nextChannel, sent, replied, faults, channel,
                   producers, closed, consumers>>
    /\ UNCHANGED <<stderr, orch, bld, env>>

\* The subscription yields an error item (a channel or connection error).
StreamError(c) ==
    /\ Subscribed(c)
    /\ Outcome(FALSE)
    /\ stream' = [stream EXCEPT ![c] = Append(@, [NoItem EXCEPT !.kind = "Err"])]
    /\ UNCHANGED <<request, cq, nextQueue, nextChannel, sent, replied, channel,
                   producers, closed, delivered, consumers>>
    /\ UNCHANGED <<stderr, orch, bld, env>>

\* The broker ends the subscription: the stream yields None once drained.
StreamClose(c) ==
    /\ Subscribed(c)
    /\ closed' = [closed EXCEPT ![c] = TRUE]
    /\ UNCHANGED <<broker, channel, producers, stream, delivered, consumers>>
    /\ UNCHANGED <<stderr, orch, bld, env>>

BrokerNext ==
    \E c \in Consumers : Deliver(c) \/ StreamError(c) \/ StreamClose(c)

(* ------------------------------ Consumer ------------------------------ *)

\* One more entry of the consumer's trace: what it did (publish, print, ack)
\* to the delivery it holds, with what it printed.
Event(c, op, arg) ==
    [op |-> op, tag |-> cur[c].tag, reply_to |-> cur[c].reply_to, arg |-> arg]

Did(c, op, arg) ==
    trace' = [trace EXCEPT ![c] = Append(@, Event(c, op, arg))]

\* Consumer_next with the acknowledgement moved ahead of the dispatch.
Consumer_next_ack_first(c) ==
    /\ c \in RunConsumers
    /\ cpc[c] = "AwaitingDelivery"
    /\ IF stream[c] # <<>>
       THEN /\ cur' = [cur EXCEPT ![c] = Head(stream[c])]
            /\ stream' = [stream EXCEPT ![c] = Tail(@)]
            /\ cpc' = [cpc EXCEPT ![c] =
                         IF Head(stream[c]).kind = "Err" THEN "Panicked" ELSE "Acking"]
       ELSE /\ closed[c]
            /\ cpc' = [cpc EXCEPT ![c] = "Closed"]
            /\ UNCHANGED <<cur, stream>>
    /\ UNCHANGED <<broker, channel, producers, closed, delivered, trace>>
    /\ UNCHANGED <<stderr, orch, bld, env>>

\* Consumer_next that takes the newest buffered item instead of the oldest.
Consumer_next_newest(c) ==
    /\ c \in RunConsumers
    /\ cpc[c] = "AwaitingDelivery"
    /\ IF stream[c] # <<>>
       THEN LET last == stream[c][Len(stream[c])] IN
            /\ cur' = [cur EXCEPT ![c] = last]
            /\ stream' = [stream EXCEPT ![c] = SubSeq(@, 1, Len(@) - 1)]
            /\ cpc' = [cpc EXCEPT ![c] =
                         IF last.kind = "Err" THEN "Panicked" ELSE "Dispatch"]
       ELSE /\ closed[c]
            /\ cpc' = [cpc EXCEPT ![c] = "Closed"]
            /\ UNCHANGED <<cur, stream>>
    /\ UNCHANGED <<broker, channel, producers, closed, delivered, trace>>
    /\ UNCHANGED <<stderr, orch, bld, env>>

\* Consumer::run, lines 16-17: `while let Some(delivery) = next().await`,
\* then `delivery.as_ref().unwrap()`, which panics on an error item.
Consumer_next(c) ==
    /\ c \in RunConsumers
    /\ cpc[c] = "AwaitingDelivery"
    /\ IF stream[c] # <<>>
       THEN /\ cur' = [cur EXCEPT ![c] = Head(stream[c])]
            /\ stream' = [stream EXCEPT ![c] = Tail(@)]
            /\ cpc' = [cpc EXCEPT ![c] =
                         IF Head(stream[c]).kind = "Err" THEN "Panicked" ELSE "Dispatch"]
       ELSE /\ closed[c]
            /\ cpc' = [cpc EXCEPT ![c] = "Closed"]
            /\ UNCHANGED <<cur, stream>>
    /\ UNCHANGED <<broker, channel, producers, closed, delivered, trace>>
    /\ UNCHANGED <<stderr, orch, bld, env>>

\* Consumer_publish after which the loop pulls the next delivery at once,
\* leaving the acknowledgement of this one for later.
Consumer_publish_then_next(c) ==
    /\ c \in RunConsumers
    /\ cpc[c] = "Dispatch"
    /\ cur[c].reply_to # NoReply
    /\ Did(c, "publish", cur[c].reply_to)
    /\ cpc' = [cpc EXCEPT ![c] = "AwaitingDelivery"]
    /\ UNCHANGED <<broker, channel, producers, subscriptions, cur>>
    /\ UNCHANGED <<stderr, orch, bld, env>>

\* Consumer::publish, lines 34-37: prints the queue name and returns Ok;
\* nothing goes to the broker.
Consumer_publish(c) ==
    /\ c \in RunConsumers
    /\ cpc[c] = "Dispatch"
    /\ cur[c].reply_to # NoReply
    /\ Did(c, "publish", cur[c].reply_to)
    /\ cpc' = [cpc EXCEPT ![c] = "Acking"]
    /\ UNCHANGED <<broker, channel, producers, subscriptions, cur>>
    /\ UNCHANGED <<stderr, orch, bld, env>>

\* Consumer::run, line 22: `print!("{}", msg.msg().unwrap())`, which panics
\* when the table holds no text.
Consumer_print(c) ==
    /\ c \in RunConsumers
    /\ cpc[c] = "Dispatch"
    /\ cur[c].reply_to = NoReply
    /\ IF HasMsg(cur[c].data)
       THEN /\ Did(c, "print", MsgText(cur[c].data))
            /\ cpc' = [cpc EXCEPT ![c] = "Acking"]
       ELSE /\ cpc' = [cpc EXCEPT ![c] = "Panicked"]
            /\ UNCHANGED trace
    /\ UNCHANGED <<broker, channel, producers, subscriptions, cur>>
    /\ UNCHANGED <<stderr, orch, bld, env>>

\* basic_ack that acknowledges requests only and skips plain messages.
basic_ack_requests_only(c, ok) ==
    /\ c \in RunConsumers
    /\ cpc[c] = "Acking"
    /\ Outcome(ok)
    /\ IF ok
       THEN /\ IF cur[c].reply_to # NoReply THEN Did(c, "ack", "") ELSE UNCHANGED trace
            /\ cpc' = [cpc EXCEPT ![c] = "AwaitingDelivery"]
       ELSE /\ cpc' = [cpc EXCEPT ![c] = "Failed"]
            /\ UNCHANGED trace
    /\ UNCHANGED <<request, cq, nextQueue, nextChannel, sent, replied, channel,
                   producers, subscriptions, cur>>
    /\ UNCHANGED <<stderr, orch, bld, env>>

\* basic_ack whose failure is swallowed: the loop goes on to the next delivery.
basic_ack_continue(c, ok) ==
    /\ c \in RunConsumers
    /\ cpc[c] = "Acking"
    /\ Outcome(ok)
    /\ IF ok THEN Did(c, "ack", "") ELSE UNCHANGED trace
    /\ cpc' = [cpc EXCEPT ![c] = "AwaitingDelivery"]
    /\ UNCHANGED <<request, cq, nextQueue, nextChannel, sent, replied, channel,
                   producers, subscriptions, cur>>
    /\ UNCHANGED <<stderr, orch, bld, env>>

\* Consumer::run, lines 24-30: basic_ack; an error ends run with it.
basic_ack(c, ok) ==
    /\ c \in RunConsumers
    /\ cpc[c] = "Acking"
    /\ Outcome(ok)
    /\ IF ok
       THEN /\ Did(c, "ack", "")
            /\ cpc' = [cpc EXCEPT ![c] = "AwaitingDelivery"]
       ELSE /\ cpc' = [cpc EXCEPT ![c] = "Failed"]
            /\ UNCHANGED trace
    /\ UNCHANGED <<request, cq, nextQueue, nextChannel, sent, replied, channel,
                   producers, subscriptions, cur>>
    /\ UNCHANGED <<stderr, orch, bld, env>>

ConsumerNext ==
    \E c \in Consumers :
        \/ Consumer_next(c)
        \/ Consumer_publish(c)
        \/ Consumer_print(c)
        \/ \E ok \in BOOLEAN : basic_ack(c, ok)

(* ---------------------------- EchoConsumer ---------------------------- *)

\* EchoConsumer_next whose error takes the producer tasks of the pool down
\* with it.
EchoConsumer_next_abort_pool(c) ==
    /\ c \in EchoConsumers
    /\ cpc[c] = "AwaitingDelivery"
    /\ IF stream[c] # <<>>
       THEN /\ cur' = [cur EXCEPT ![c] = Head(stream[c])]
            /\ stream' = [stream EXCEPT ![c] = Tail(@)]
            /\ cpc' = [cpc EXCEPT ![c] =
                         IF Head(stream[c]).kind = "Err" THEN "Failed" ELSE "Responding"]
            /\ stderr' = IF Head(stream[c]).kind = "Err"
                         THEN stderr \cup {c} ELSE stderr
            /\ ppc' = [p \in Producers |->
                         IF Head(stream[c]).kind = "Err" /\ p \in Generators
                         THEN "stopped" ELSE ppc[p]]
       ELSE /\ closed[c]
            /\ cpc' = [cpc EXCEPT ![c] = "Closed"]
            /\ UNCHANGED <<cur, stream, stderr, ppc>>
    /\ UNCHANGED <<broker, channel, call, ncalls, rets, closed, delivered, trace>>
    /\ UNCHANGED <<orch, bld, env>>

\* EchoConsumer::run, lines 183-188: pull the next item; an error item ends
\* run with that error.
EchoConsumer_next(c) ==
    /\ c \in EchoConsumers
    /\ cpc[c] = "AwaitingDelivery"
    /\ IF stream[c] # <<>>
       THEN /\ cur' = [cur EXCEPT ![c] = Head(stream[c])]
            /\ stream' = [stream EXCEPT ![c] = Tail(@)]
            /\ cpc' = [cpc EXCEPT ![c] =
                         IF Head(stream[c]).kind = "Err" THEN "Failed" ELSE "Responding"]
            \* main.rs, lines 60-62: the task prints the error run returned.
            /\ stderr' = IF Head(stream[c]).kind = "Err"
                         THEN stderr \cup {c} ELSE stderr
       ELSE /\ closed[c]
            /\ cpc' = [cpc EXCEPT ![c] = "Closed"]
            /\ UNCHANGED <<cur, stream, stderr>>
    /\ UNCHANGED <<broker, channel, producers, closed, delivered, trace>>
    /\ UNCHANGED <<orch, bld, env>>

\* Consumer::response(&req, req.data()): publish the payload to the request's
\* reply destination on the consumer's channel, then acknowledge the request.
\* The default exchange drops a message routed to a queue that does not exist.
Consumer_response(c, ok) ==
    /\ c \in EchoConsumers
    /\ cpc[c] = "Responding"
    /\ Outcome(ok)
    /\ IF ok
       THEN LET r == [ch |-> channel[c], key |-> cur[c].reply_to,
                      body |-> cur[c].data, call |-> cur[c].call] IN
            /\ IF cur[c].reply_to # NoReply
               THEN /\ replied' = replied \cup {r}
                    /\ cq' = IF r.key \in DOMAIN cq
                             THEN [cq EXCEPT ![r.key].msgs = Append(@, r.body)]
                             ELSE cq
               ELSE UNCHANGED <<replied, cq>>
            /\ trace' = [trace EXCEPT ![c] =
                           @ \o (IF cur[c].reply_to # NoReply
                                 THEN <<Event(c, "publish", cur[c].reply_to)>>
                                 ELSE <<>>)
                             \o <<Event(c, "ack", "")>>]
            /\ cpc' = [cpc EXCEPT ![c] = "AwaitingDelivery"]
            /\ UNCHANGED stderr
       ELSE /\ cpc' = [cpc EXCEPT ![c] = "Failed"]
            /\ stderr' = stderr \cup {c}
            /\ UNCHANGED <<replied, cq, trace>>
    /\ UNCHANGED <<request, nextQueue, nextChannel, sent, channel, producers,
                   subscriptions, cur>>
    /\ UNCHANGED <<orch, bld, env>>

EchoNext ==
    \E c \in Consumers :
        \/ EchoConsumer_next(c)
        \/ \E ok \in BOOLEAN : Consumer_response(c, ok)

Next == ProducerNext \/ BuilderNext \/ BrokerNext \/ ConsumerNext \/ EchoNext

Spec == Init /\ [][Next]_vars

\* The round trip producer p awaits in rpc or publish comes to its end.
RoundTrip(p) ==
    \/ \E outcome \in {"ok", "create_err", "declare_err"} : create_channel(p, outcome)
    \/ \E ok \in BOOLEAN : queue_declare(p, ok)
    \/ \E ok \in BOOLEAN : basic_publish(p, ok)

\* The scenario of the orchestrator: generators and free callers on the
\* producers' connection, EchoConsumer tasks on the consumers' connection,
\* which stay live: their subscriptions neither fail nor end.
ScenarioInit ==
    /\ InstancesInit(EchoConsumers)
    /\ orch = NotStarted
    /\ bld = NoBuilders
    /\ env = NoEnvelope

ScenarioNext ==
    \/ ProducerNext
    \/ BuilderNext
    \/ \E c \in Consumers : Deliver(c)
    \/ EchoNext

\* The broker answers every round trip and the executor polls every task
\* that was woken: an awaited round trip of a call does come to its end.
ScenarioSpec ==
    ScenarioInit /\ [][ScenarioNext]_vars
        /\ \A p \in Producers : WF_vars(RoundTrip(p))

(* ---------------------------- orchestrator ---------------------------- *)

PRODUCERS == 32
CONSUMERS == 64
CONSUMERS_PER_THREAD == 8

\* The options of the tune subcommand as clap holds them, by argument name;
\* an option left out has its default_value (lines 272, 280, 288).
TuneOpts ==
    {("producers" :> np) @@ ("consumers" :> nc) @@ ("consumers-per-thread" :> k) :
        np \in 0..MaxProducersArg \cup {PRODUCERS},
        nc \in 0..MaxConsumersArg \cup {CONSUMERS},
        k \in 1..MaxPerThreadArg \cup {CONSUMERS_PER_THREAD}}

\* The command lines: a runtime and, perhaps, the tune subcommand.
CommandLines ==
    {[runtime |-> r, tune |-> t] :
        r \in {"thread-pool", "local-pool"},
        t \in {<<>>} \cup {<<o>> : o \in TuneOpts}}

\* clap's value_t!(opts, name, usize): the value of the argument of that
\* name, or Err when the matches hold no argument of that name.
value_t(opts, name) == IF name \in DOMAIN opts THEN <<"Ok", opts[name]>> ELSE <<"Err">>

\* `if let Ok(val) = value_t!(..) { x = val }` on a variable holding dflt.
OrDefault(res, dflt) == IF res[1] = "Ok" THEN res[2] ELSE dflt

\* Config::parse, lines 294-320.
Config_parse(args) ==
    LET tuned == args.tune # <<>>
        opts == IF tuned THEN args.tune[1] ELSE <<>> IN
    [runtime |-> args.runtime,
     producers |-> IF tuned THEN OrDefault(value_t(opts, "producers"), PRODUCERS)
                   ELSE PRODUCERS,
     consumers |-> IF tuned THEN OrDefault(value_t(opts, "consumers"), PRODUCERS)
                   ELSE PRODUCERS,
     consumers_per_thread |->
         IF tuned THEN OrDefault(value_t(opts, "consumers_per_thread"),
                                 CONSUMERS_PER_THREAD)
         ELSE CONSUMERS_PER_THREAD]

\* The process is started with one of the command lines; nothing is spawned.
PoolInit ==
    /\ InstancesInit({})
    /\ orch \in {[pc |-> "main", args |-> a, cfg |-> <<>>, i |-> 0,
                   producers |-> 0, consumers |-> 0, groups |-> 0,
                   threads |-> 0, ran |-> 0, ended |-> 0, joined |-> 0,
                   fatal |-> FALSE, exit |-> "running"] : a \in CommandLines}
    /\ bld = NoBuilders
    /\ env = NoEnvelope

\* main, lines 17-23: parse the command line and enter the chosen runtime.
main ==
    /\ orch.pc = "main"
    /\ LET cfg == Config_parse(orch.args) IN
       orch' = [orch EXCEPT !.cfg = cfg,
                            !.pc = IF cfg.runtime = "thread-pool"
                                   THEN "thread_pool" ELSE "local_pool"]
    /\ UNCHANGED <<vars, bld, env>>

\* A `?` of main's call chain on a failed set-up step: main returns the
\* error and the process exits with a failure status.
Fatal == [orch EXCEPT !.pc = "exited", !.fatal = TRUE, !.exit = "Err"]

\* thread_pool, lines 26-34: the pool, the two connections and the executor
\* guard, each with `?`.
thread_pool(ok) ==
    /\ orch.pc = "thread_pool"
    /\ orch' = IF ok THEN [orch EXCEPT !.pc = "thread_pool_producers"] ELSE Fatal
    /\ UNCHANGED <<vars, bld, env>>

\* local_pool, lines 80-83: the producers' connection, with `?`.
local_pool(ok) ==
    /\ orch.pc = "local_pool"
    /\ orch' = IF ok THEN [orch EXCEPT !.pc = "local_pool_producers"] ELSE Fatal
    /\ UNCHANGED <<vars, bld, env>>

\* thread_pool, lines 37-50: `for _ in 0..cfg.producers`, one task each.
thread_pool_producers ==
    /\ orch.pc = "thread_pool_producers"
    /\ orch' = IF orch.i < orch.cfg.producers
               THEN [orch EXCEPT !.i = @ + 1, !.producers = @ + 1]
               ELSE [orch EXCEPT !.i = 0, !.pc = "thread_pool_consumers"]
    /\ UNCHANGED <<vars, bld, env>>

\* thread_pool, lines 53-72: `for _ in 0..cfg.consumers`, one task each, then
\* the idle loop.
thread_pool_consumers ==
    /\ orch.pc = "thread_pool_consumers"
    /\ orch' = IF orch.i < orch.cfg.consumers
               THEN [orch EXCEPT !.i = @ + 1, !.consumers = @ + 1]
               ELSE [orch EXCEPT !.i = 0, !.pc = "idle"]
    /\ UNCHANGED <<vars, bld, env>>

\* local_pool, lines 84-100: one thread for each producer.
local_pool_producers ==
    /\ orch.pc = "local_pool_producers"
    /\ orch' = IF orch.i < orch.cfg.producers
               THEN [orch EXCEPT !.i = @ + 1, !.producers = @ + 1]
               ELSE [orch EXCEPT !.i = 0, !.pc = "local_pool_groups"]
    /\ UNCHANGED <<vars, bld, env>>

\* local_pool, lines 102-107: the number of consumer threads, an integer
\* division (a division by zero panics), then the consumers' connection,
\* with `?`.
local_pool_groups(ok) ==
    /\ orch.pc = "local_pool_groups"
    /\ orch' = IF orch.cfg.consumers_per_thread = 0
               THEN [orch EXCEPT !.pc = "panicked"]
               ELSE IF ok
               THEN [orch EXCEPT !.pc = "local_pool_consumers",
                                 !.groups = orch.cfg.consumers
                                              \div orch.cfg.consumers_per_thread]
               ELSE Fatal
    /\ UNCHANGED <<vars, bld, env>>

\* local_pool, lines 108-139: `for _ in 0..consumers`, one thread each, then
\* the joins.
local_pool_consumers ==
    /\ orch.pc = "local_pool_consumers"
    /\ orch' = IF orch.i < orch.groups
               THEN [orch EXCEPT !.i = @ + 1, !.threads = @ + 1]
               ELSE [orch EXCEPT !.i = 0, !.pc = "join"]
    /\ UNCHANGED <<vars, bld, env>>

\* A consumer thread, lines 110-130: `for _ in 0..consumers_per_thread`, one
\* task each on the thread's LocalPool, then pool.run().
consumer_thread ==
    /\ orch.ran < orch.threads
    /\ orch' = [orch EXCEPT !.ran = @ + 1,
                            !.consumers = @ + orch.cfg.consumers_per_thread]
    /\ UNCHANGED <<vars, bld, env>>

\* What the orchestrator has started and may see end: its tasks in
\* thread_pool, its threads that have spawned theirs in local_pool.
Started_units ==
    IF orch.args.runtime = "thread-pool"
    THEN orch.producers + orch.consumers
    ELSE orch.producers + orch.ran

\* One more task, or thread, comes to its end: its instance's build or loop
\* has ended, or it has panicked. The orchestrator can notice it at a join
\* only, so the ends are counted from when its loops are over.
instance_ends ==
    /\ orch.pc \in {"idle", "join"}
    /\ orch.ended < Started_units
    /\ orch' = [orch EXCEPT !.ended = @ + 1]
    /\ UNCHANGED <<vars, bld, env>>

\* thread_pool, lines 70-72: `loop { thread::sleep(1 s) }`.
thread_pool_idle ==
    /\ orch.pc = "idle"
    /\ orch' = orch
    /\ UNCHANGED <<vars, bld, env>>

\* local_pool_return that does not wait for the threads.
local_pool_return_unjoined ==
    /\ orch.pc = "join"
    /\ orch' = [orch EXCEPT !.pc = "exited", !.exit = "Ok"]
    /\ UNCHANGED <<vars, bld, env>>

\* local_pool, lines 135-139: `t.join()` returns once the thread has ended;
\* the Err of a panicked thread is printed and the loop goes on.
local_pool_join ==
    /\ orch.pc = "join"
    /\ orch.joined < orch.producers + orch.threads
    /\ orch.joined < orch.ended
    /\ orch' = [orch EXCEPT !.joined = @ + 1]
    /\ UNCHANGED <<vars, bld, env>>

\* local_pool, line 140: `Ok(())` after the last join.
local_pool_return ==
    /\ orch.pc = "join"
    /\ orch.joined = orch.producers + orch.threads
    /\ orch' = [orch EXCEPT !.pc = "exited", !.exit = "Ok"]
    /\ UNCHANGED <<vars, bld, env>>

PoolNext ==
    \/ main
    \/ \E ok \in BOOLEAN : thread_pool(ok)
    \/ thread_pool_producers
    \/ thread_pool_consumers
    \/ thread_pool_idle
    \/ \E ok \in BOOLEAN : local_pool(ok)
    \/ local_pool_producers
    \/ \E ok \in BOOLEAN : local_pool_groups(ok)
    \/ local_pool_consumers
    \/ consumer_thread
    \/ instance_ends
    \/ local_pool_join
    \/ local_pool_return

PoolSpec == PoolInit /\ [][PoolNext]_<<vars, orch>>

(* ------------------------------ builders ------------------------------ *)

\* The queue names given to the builders.
QueueNames == {request_queue, "other"}

\* The queue name and the connection builder b is configured with.
QueueOf(b) == bld.configs[bld.builders[b].config].queue
ConnectionOf(b) == bld.builders[b].conn

\* Connection_clone that opens a session of its own.
Connection_clone_reconnect(k) == "clone of " \o k

\* #[derive(Clone)] on Connection, client.rs lines 40-41: the clone is a
\* handle on the same session.
Connection_clone(k) == k

\* Connection::producer_builder / consumer_builder, lines 48-57: a builder
\* over a clone of the connection, a handle on the same session, with a
\* configuration of its own (the default queue name, produce.rs line 98).
Connection_builder(k) ==
    /\ Len(bld.builders) < MaxBuilders
    /\ bld' = [builders |-> Append(bld.builders,
                                   [config |-> Len(bld.configs) + 1,
                                    conn |-> Connection_clone(k), from |-> 0]),
               configs |-> Append(bld.configs, [queue |-> "/"]),
               last |-> Len(bld.builders) + 1]
    /\ UNCHANGED <<vars, orch, env>>

\* builder.with_queue(name), main.rs line 36: sets the builder's own queue
\* name.
with_queue(b, name) ==
    /\ b \in DOMAIN bld.builders
    /\ bld' = [bld EXCEPT !.configs[bld.builders[b].config].queue = name,
                          !.last = b]
    /\ UNCHANGED <<vars, orch, env>>

\* builder_clone that hands the clone the configuration of the original
\* itself, not a copy of it.
builder_clone_shared(b) ==
    /\ b \in DOMAIN bld.builders
    /\ Len(bld.builders) < MaxBuilders
    /\ bld' = [bld EXCEPT !.builders = Append(@, [config |-> bld.builders[b].config,
                                                  conn |-> Connection_clone(ConnectionOf(b)),
                                                  from |-> b]),
                          !.last = Len(bld.builders) + 1]
    /\ UNCHANGED <<vars, orch, env>>

\* builder.clone(), main.rs line 38: the clone owns a copy of the
\* configuration and a clone of the connection handle (client.rs line 40).
builder_clone(b) ==
    /\ b \in DOMAIN bld.builders
    /\ Len(bld.builders) < MaxBuilders
    /\ bld' = [builders |-> Append(bld.builders,
                                   [config |-> Len(bld.configs) + 1,
                                    conn |-> Connection_clone(ConnectionOf(b)),
                                    from |-> b]),
               configs |-> Append(bld.configs, bld.configs[bld.builders[b].config]),
               last |-> Len(bld.builders) + 1]
    /\ UNCHANGED <<vars, orch, env>>

BuilderInit ==
    /\ InstancesInit({})
    /\ orch = NotStarted
    /\ bld = NoBuilders
    /\ env = NoEnvelope

BuilderOps ==
    \/ \E k \in Connections : Connection_builder(k)
    \/ \E b \in 1..MaxBuilders : \E name \in QueueNames : with_queue(b, name)
    \/ \E b \in 1..MaxBuilders : builder_clone(b)

BuilderSpec == BuilderInit /\ [][BuilderOps]_bld

(* ------------------------------ envelopes ----------------------------- *)

\* The texts of the tests (main.rs line 344) and the two message types.
Texts == {"a", "b", "c", "d"}
MessageTypes == {"Hello", "Goodbye"}

\* A field left out, or set to one of the values.
Optional(field, values) == {<<>>} \cup {field :> v : v \in values}

\* What a caller sets of an envelope: any of id, msg_type and msg.
Envelopes ==
    {i @@ t @@ m : i \in Optional("id", 0..MaxId),
                   t \in Optional("msg_type", MessageTypes),
                   m \in Optional("msg", Texts)}

\* MessageArgs { .., ..Default::default() }, lines 349-352: the fields that
\* were not given take the defaults, id 0 and type Hello; msg stays None.
MessageArgs(f) ==
    [k \in DOMAIN f \cup {"id", "msg_type"} |->
        IF k \in DOMAIN f THEN f[k]
        ELSE IF k = "id" THEN DefaultId ELSE DefaultType]

EnvelopeInit ==
    /\ InstancesInit({})
    /\ orch = NotStarted
    /\ bld = NoBuilders
    /\ env \in {[pc |-> "new", fields |-> f, buf |-> <<>>, got |-> <<>>] :
                   f \in Envelopes}

\* message_create, lines 346-355: Message::create over MessageArgs, finish.
message_create ==
    /\ env.pc = "new"
    /\ env' = [env EXCEPT !.pc = "finished", !.buf = Encode(MessageArgs(env.fields))]
    /\ UNCHANGED <<vars, orch, bld>>

\* message_builder that leaves add_msg_type out.
message_builder_no_type ==
    /\ env.pc = "new"
    /\ env' = [env EXCEPT !.pc = "finished",
                          !.buf = Encode(Restrict(env.fields,
                                                  DOMAIN env.fields \ {"msg_type"}))]
    /\ UNCHANGED <<vars, orch, bld>>

\* message_builder, lines 368-376: MessageBuilder with an add_ call for each
\* field the caller sets, finish.
message_builder ==
    /\ env.pc = "new"
    /\ env' = [env EXCEPT !.pc = "finished", !.buf = Encode(env.fields)]
    /\ UNCHANGED <<vars, orch, bld>>

\* get_root_as_message and the accessors, lines 356-360 and 377-380; msg()
\* is an Option, here a sequence of at most one text.
get_root_as_message ==
    /\ env.pc = "finished"
    /\ env' = [env EXCEPT !.pc = "read",
                          !.got = [id |-> MsgId(env.buf),
                                   msg_type |-> MsgType(env.buf),
                                   msg |-> IF HasMsg(env.buf)
                                           THEN <<MsgText(env.buf)>> ELSE <<>>]]
    /\ UNCHANGED <<vars, orch, bld>>

EnvelopeOps ==
    \/ message_create
    \/ message_builder
    \/ get_root_as_message

EnvelopeSpec == EnvelopeInit /\ [][EnvelopeOps]_env

(* ------------------------------- claims ------------------------------- *)

RpcReturns == {r \in rets : r.op = "rpc"}
RpcOk == {r \in RpcReturns : r.status = "Ok"}

\* The replies that have been published to correlation queue q.
RepliesTo(q) == {m \in replied : m.key = q}

\* The entries of consumer c's trace, by position.
Events(c) == 1..Len(trace[c])
DoneBefore(c, i, op) ==
    \E j \in 1..(i - 1) : trace[c][j].op = op /\ trace[c][j].tag = trace[c][i].tag

\* C1: an rpc call that has returned success has consumed exactly one delivery
\* from the correlation queue it declared, and returns that delivery's payload.
C1_RpcReturnsItsReply ==
    \A r \in RpcOk :
        /\ Len(r.reply) = 1
        /\ \E m \in RepliesTo(r.q) : r.reply[1] = m.body

\* C2: in Consumer::run every acknowledgement of a delivery comes after the
\* answer-publish (a request) or the handler (a plain message) of that same
\* delivery has completed; a consumer that is acknowledging has completed it.
C2_AckAfterAnswerOrHandle ==
    \A c \in RunConsumers :
        /\ \A i \in Events(c) :
              trace[c][i].op = "ack" =>
                  IF trace[c][i].reply_to # NoReply
                  THEN DoneBefore(c, i, "publish")
                  ELSE DoneBefore(c, i, "print")
        /\ cpc[c] = "Acking" =>
              \E j \in Events(c) :
                  /\ trace[c][j].tag = cur[c].tag
                  /\ trace[c][j].op = IF cur[c].reply_to # NoReply THEN "publish" ELSE "print"

\* A Consumer::run loop has acknowledged a request and a plain message.
C2_Witness ==
    \E c \in RunConsumers : \E i, j \in Events(c) :
        /\ trace[c][i].op = "ack" /\ trace[c][i].reply_to # NoReply
        /\ trace[c][j].op = "ack" /\ trace[c][j].reply_to = NoReply

\* C3: of two rpc calls of one Producer, each receives the reply addressed to
\* its own correlation queue and not the reply addressed to the other's.
C3_EachCallGetsOwnReply ==
    \A a, b \in RpcOk :
        (a.p = b.p /\ a.n # b.n) =>
            /\ \E m \in RepliesTo(a.q) : a.reply = <<m.body>>
            /\ a.q # b.q

\* C4: an rpc call on whose correlation queue no reply has arrived does not
\* return success: it fails (RpcTimeout).
C4_NoReplyNoSuccess ==
    \A r \in RpcReturns :
        (r.q # NoReply /\ RepliesTo(r.q) = {}) => r.status = "Err"

Requests == {m \in sent : m.reply_to # NoReply}

\* C5: no correlation queue name is the reply destination of the requests of
\* two different rpc calls, of one Producer or of several, and every reply
\* destination names an exclusive, auto-delete queue declared by its own call.
C5_FreshCorrelationQueue ==
    /\ \A m1, m2 \in Requests : m1.call # m2.call => m1.reply_to # m2.reply_to
    /\ \A m \in Requests :
          m.reply_to \in DOMAIN cq =>
              /\ cq[m.reply_to].by = m.call
              /\ cq[m.reply_to].opts.exclusive
              /\ cq[m.reply_to].opts.auto_delete

\* Requests of two calls of one Producer and of a call of another Producer
\* have been published.
C5_Witness ==
    \E m1, m2, m3 \in Requests :
        /\ m1.call[1] = m2.call[1] /\ m1.call[2] # m2.call[2]
        /\ m3.call[1] # m1.call[1]

\* The deliveries a consumer holds or has buffered.
Held(c) ==
    {stream[c][i] : i \in 1..Len(stream[c])} \cup
    (IF cpc[c] \in {"Dispatch", "Acking", "Responding"} THEN {cur[c]} ELSE {})

\* C6: the reply destination of every published request, and so of every
\* request a consumer can receive, is a correlation queue that exists at the
\* broker; a call at its publish step has its queue declared.
C6_DeclaredBeforePublish ==
    /\ \A m \in Requests : m.reply_to \in DOMAIN cq
    /\ \A c \in Consumers : \A d \in Held(c) :
          (d.kind = "Ok" /\ d.reply_to # NoReply) => d.reply_to \in DOMAIN cq
    /\ \A p \in Producers :
          (ppc[p] = "basic_publish" /\ call[p].op = "rpc") => call[p].q \in DOMAIN cq

\* A consumer has received a request that carries a reply destination.
C6_Witness ==
    \E c \in Consumers : cpc[c] \in {"Dispatch", "Responding"} /\ cur[c].reply_to # NoReply

\* C7: Consumer::run has published a response to the reply destination of every
\* request it acknowledges, on its own channel; for a plain message it
\* publishes nothing and hands the decoded text to the handler.
C7_AnswerPublishedToReplyTo ==
    \A c \in RunConsumers : \A i \in Events(c) :
        trace[c][i].op = "ack" =>
            IF trace[c][i].reply_to # NoReply
            THEN \E m \in RepliesTo(trace[c][i].reply_to) : m.ch = channel[c]
            ELSE DoneBefore(c, i, "print")

\* C8: with the echo consumer on the request queue, every rpc call of the
\* generator that has returned has returned a reply whose text is the text of
\* its own request.
C8_EchoRoundTrip ==
    cpc["c2"] # "Idle" =>
        \A r \in RpcOk :
            r.p \in Generators => print_buf(r.reply) = MsgText(r.msg)

\* The tags consumer c has acknowledged, in order.
IsAck(e) == e.op = "ack"
Acked(c) == [i \in 1..Len(SelectSeq(trace[c], IsAck)) |-> SelectSeq(trace[c], IsAck)[i].tag]

\* C9: when Consumer::run has returned Ok, on a stream that has ended after n
\* deliveries, it has acknowledged exactly these n deliveries, each once, in
\* the order of their tags.
C9_AcksExactlyTheDeliveries ==
    \A c \in RunConsumers :
        cpc[c] = "Closed" => Acked(c) = [i \in 1..delivered[c] |-> i]

\* Consumer::run has returned Ok on a stream that ended after 3 deliveries.
C9_Witness ==
    \E c \in RunConsumers : cpc[c] = "Closed" /\ delivered[c] = 3

\* C10: Consumer::run that meets an error, an error item of the stream
\* included, ends by returning it (Failed).
C10_FirstErrorReturned ==
    \A c \in RunConsumers :
        /\ cur[c].kind = "Err" => cpc[c] = "Failed"
        /\ cpc[c] # "Panicked"

\* The tags consumer c has acknowledged.
AckedTags(c) == {trace[c][i].tag : i \in {j \in Events(c) : trace[c][j].op = "ack"}}

\* C11: a delivery whose envelope does not decode (no text can be read from
\* it) is still acknowledged once Consumer::run is done with it.
C11_MalformedStillAcked ==
    \A c \in RunConsumers :
        (/\ cur[c].kind = "Ok"
         /\ ~HasMsg(cur[c].data)
         /\ cpc[c] \notin {"Dispatch", "Acking", "Failed"})
            => cur[c].tag \in AckedTags(c)

\* C12: a failed acknowledgement ends Consumer::run with that error (Failed);
\* the delivery is not acknowledged again and, from then on, the loop pulls
\* nothing from its subscription and does nothing more.
C12_AckErrorEndsRun ==
    [][\A c \in RunConsumers :
          /\ (cpc[c] = "Acking" /\ faults' > faults /\ cpc'[c] # "Acking")
                => (cpc'[c] = "Failed" /\ trace'[c] = trace[c])
          /\ cpc[c] = "Failed"
                => /\ cpc'[c] = "Failed"
                   /\ cur'[c] = cur[c]
                   /\ trace'[c] = trace[c]
                   /\ Len(stream'[c]) >= Len(stream[c])]_vars

\* Consumer::run has ended on a failed acknowledgement while a further
\* delivery waits on its subscription.
C12_Witness ==
    \E c \in RunConsumers :
        /\ cpc[c] = "Failed"
        /\ cur[c].tag \notin AckedTags(c)
        /\ stream[c] # <<>>

\* C13: Consumer::run works on its deliveries in the order of their arrival
\* (their tags), and every earlier delivery is acknowledged before anything is
\* done to a later one.
C13_InOrder ==
    \A c \in RunConsumers :
        /\ \A j \in Events(c) : \A t \in 1..(trace[c][j].tag - 1) :
              \E i \in 1..(j - 1) : trace[c][i].op = "ack" /\ trace[c][i].tag = t
        /\ cpc[c] \in {"Dispatch", "Acking"} =>
              \A t \in 1..(cur[c].tag - 1) : t \in AckedTags(c)

\* Consumer::run has acknowledged its first delivery and works on the second,
\* with a third one buffered behind it.
C13_Witness ==
    \E c \in RunConsumers :
        /\ cpc[c] = "Dispatch" /\ cur[c].tag = 2
        /\ 1 \in AckedTags(c)
        /\ stream[c] # <<>>

\* The deliveries consumer c has pulled and not acknowledged.
InFlight(c) == {t \in 1..cur[c].tag : t \notin AckedTags(c)}

\* C14: a Consumer::run loop that has not failed holds at most one delivery
\* that it pulled and has not acknowledged, and none when it pulls the next.
C14_OneInFlight ==
    \A c \in RunConsumers :
        cpc[c] \notin {"Failed", "Panicked"} =>
            /\ Cardinality(InFlight(c)) <= 1
            /\ cpc[c] \in {"AwaitingDelivery", "Closed"} => InFlight(c) = {}

\* One delivery is in flight while two more are buffered on the subscription.
C14_Witness ==
    \E c \in RunConsumers :
        /\ Cardinality(InFlight(c)) = 1
        /\ Len(stream[c]) = 2

\* C15: a Producer has no channel before its first call, is at the channel
\* creation only while it has none, and has published every message of every
\* call on the one channel it holds.
C15_ChannelCreatedOnce ==
    \A p \in Producers :
        /\ ncalls[p] = 0 => channel[p] = NoChannel
        /\ ppc[p] = "create_channel" => channel[p] = NoChannel
        /\ \A m \in sent :
              m.call[1] = p => (m.ch = channel[p] /\ m.ch # NoChannel)
        /\ \A r \in rets :
              (r.p = p /\ r.ch # NoChannel) => channel[p] = r.ch

\* A Producer has published the messages of two calls, a publish and an rpc.
C15_Witness ==
    \E m1, m2 \in sent :
        /\ m1.call[1] = m2.call[1]
        /\ m1.op = "publish" /\ m2.op = "rpc"

\* C16: after a publish call has failed in its publish round trip, the
\* Producer holds the channel it held in that call, and its later calls
\* publish on that channel.
C16_FailedPublishKeepsChannel ==
    \A r \in rets :
        (r.op = "publish" /\ r.status = "Err" /\ r.at = "basic_publish") =>
            /\ r.ch # NoChannel
            /\ channel[r.p] = r.ch
            /\ \A m \in sent :
                  (m.call[1] = r.p /\ m.call[2] > r.n) => m.ch = r.ch

\* A publish call failed in its publish round trip and the caller's next
\* call has published.
C16_Witness ==
    \E r \in rets : \E m \in sent :
        /\ r.op = "publish" /\ r.status = "Err" /\ r.at = "basic_publish"
        /\ m.call = <<r.p, r.n + 1>>

\* C17: the channels Connection::channel has handed to the instances of one
\* connection are all different: no two instances hold the same channel.
C17_ChannelsNeverShared ==
    \A i, j \in Producers \cup Consumers :
        (/\ i # j
         /\ ConnOf(i) = ConnOf(j)
         /\ channel[i] # NoChannel
         /\ channel[j] # NoChannel) => channel[i] # channel[j]

\* Both producers, clones of one connection, and a consumer hold a channel.
C17_Witness ==
    /\ \A p \in Producers : channel[p] # NoChannel
    /\ \E c \in Consumers : channel[c] # NoChannel

\* C18: once an rpc call has completed, the correlation queue it declared
\* exists no more at the broker.
C18_CorrelationQueueDeleted ==
    \A r \in RpcReturns : r.q # NoReply => r.q \notin DOMAIN cq

\* The tasks that have ended with an error of their build or of their loop.
Ended ==
    {p \in Generators : ppc[p] = "stopped"}
        \cup {c \in EchoConsumers : cpc[c] \in {"BuildFailed", "Failed"}}

\* C20: the tasks that have ended with an error are exactly those that have
\* printed one, and each of them ended on a failure of its own: there are
\* never more ended tasks than failures.
C20_ErrorLoggedAlone ==
    /\ stderr = Ended
    /\ Cardinality(Ended) <= faults
    /\ \A p \in Generators \cap Ended :
          \E r \in rets : r.p = p /\ r.status = "Err"

\* An EchoConsumer task has ended with its error printed while the
\* ASCIIGenerator task, started before or after, is in the middle of an rpc.
C20_Witness ==
    \E c \in EchoConsumers : \E p \in Generators :
        /\ cpc[c] = "Failed" /\ c \in stderr
        /\ ppc[p] = "basic_publish"

\* Every loop of the orchestrator has run to its end and every thread it
\* started has spawned its tasks.
AllSpawned ==
    \/ orch.pc = "idle"
    \/ orch.pc = "join" /\ orch.ran = orch.threads

\* C19: when the orchestrator has spawned everything, in either runtime, it
\* has instantiated as many producers and as many consumers as its Config
\* says.
C19_ExactCounts ==
    AllSpawned =>
        /\ orch.producers = orch.cfg.producers
        /\ orch.consumers = orch.cfg.consumers

\* C21: every rpc call in progress comes to its end: no rpc call waits
\* forever, with the consumers live or not.
C21_RpcCallsResolve ==
    \A p \in Producers : (call[p].op = "rpc") ~> (call[p] = NoCall)

\* An rpc call has returned whose request was delivered to a consumer that
\* is still at its loop.
C21_Witness ==
    \E r \in RpcOk : \E c \in Consumers :
        /\ cur[c].call = <<r.p, r.n>>
        /\ Subscribed(c)

C23_ClonesIndependent ==
    [][/\ \A b \in DOMAIN bld.builders :
             /\ b # bld'.last => QueueOf(b)' = QueueOf(b)
             /\ ConnectionOf(b)' = ConnectionOf(b)
       /\ \A b \in DOMAIN bld'.builders \ DOMAIN bld.builders :
             bld'.builders[b].from # 0 =>
                 /\ QueueOf(b)' = QueueOf(bld'.builders[b].from)
                 /\ ConnectionOf(b)' = ConnectionOf(bld'.builders[b].from)]_bld

\* A clone was given a queue name other than its original's, which kept its
\* own; both are on the same connection.
C23_Witness ==
    \E b \in DOMAIN bld.builders :
        LET o == bld.builders[b].from IN
        /\ o # 0
        /\ bld.last = b
        /\ QueueOf(b) = "other"
        /\ QueueOf(o) = request_queue
        /\ ConnectionOf(b) = ConnectionOf(o)

\* C24: what is read from a finished envelope is what was set: the id, the
\* type and the text that were given, id 0 and type Hello where none was
\* given, and no text where none was given.
C24_EnvelopeRoundTrip ==
    env.pc = "read" =>
        LET f == env.fields IN
        /\ env.got.id = IF "id" \in DOMAIN f THEN f["id"] ELSE 0
        /\ env.got.msg_type = IF "msg_type" \in DOMAIN f THEN f["msg_type"] ELSE "Hello"
        /\ env.got.msg = IF "msg" \in DOMAIN f THEN <<f["msg"]>> ELSE <<>>

\* An envelope with an id, the type Goodbye and a text was read back, as was
\* one with the text only.
C24_Witness ==
    /\ env.pc = "read"
    /\ DOMAIN env.fields = {"id", "msg_type", "msg"}
    /\ env.fields["id"] = MaxId
    /\ env.fields["msg_type"] = "Goodbye"
    /\ env.got.msg = <<"a">>

CreationFailures == {r \in rets : r.status = "Err" /\ r.at = "create_channel"}

\* C26: a call that failed in the creation of the channel has published
\* nothing and left the Producer without a channel, for as long as no later
\* call was started; the Producer's next call is at the creation of the
\* channel again: it creates one or fails there too.
C26_FailedCreationRetried ==
    \A r \in CreationFailures :
        /\ r.ch = NoChannel
        /\ \A m \in sent : m.call # <<r.p, r.n>>
        /\ ncalls[r.p] = r.n => channel[r.p] = NoChannel
        /\ call[r.p].n = r.n + 1 =>
              (ppc[r.p] = "create_channel" \/ channel[r.p] # NoChannel)
        /\ \A r2 \in rets :
              (r2.p = r.p /\ r2.n = r.n + 1) =>
                  (r2.at = "create_channel" \/ r2.ch # NoChannel)

\* A call failed in the creation of the channel and the next call of that
\* Producer has created a channel and published on it.
C26_Witness ==
    \E r \in CreationFailures : \E m \in sent :
        /\ m.call = <<r.p, r.n + 1>>
        /\ m.ch = channel[r.p]

\* C27: an rpc call that failed in declaring its correlation queue has
\* published no request, and every request rpc has published carries a reply
\* destination, the queue its own call declared.
C27_NoRequestWithoutReplyQueue ==
    /\ \A r \in RpcReturns :
          (r.status = "Err" /\ r.at = "queue_declare") =>
              /\ r.q = NoReply
              /\ \A m \in sent : m.call # <<r.p, r.n>>
    /\ \A m \in sent :
          m.op = "rpc" =>
              /\ m.reply_to # NoReply
              /\ m.reply_to \in DOMAIN cq
              /\ cq[m.reply_to].by = m.call

\* An rpc call failed in declaring its correlation queue, on a Producer that
\* has published the request of another rpc call.
C27_Witness ==
    \E r \in RpcReturns : \E m \in sent :
        /\ r.status = "Err" /\ r.at = "queue_declare"
        /\ m.op = "rpc"
        /\ m.call[1] = r.p

====
